---- MODULE Spec2Model ----
(***************************************************************************)
(* Event versioning and sharing core of the Event-Management-System:       *)
(* app/api/events.py over the tables of app/models/event.py.  The durable  *)
(* store is the committed content of the four tables; every request runs   *)
(* in its own session (app/core/database.py) and takes one step per        *)
(* awaited database call.                                                  *)
(***************************************************************************)
EXTENDS Integers, Sequences, FiniteSets, TLC

\* ---------------------------------------------------------------- bounds
MaxEvents == 1
MaxVersion == 3
NumReqs == 2
NumUsers == 2

Users == 1..NumUsers
Reqs == 1..NumReqs

\* ------------------------------------------------------- values of fields
\* Every Python value a field can hold is one record shape, so that two
\* values are equal exactly when Python's == on them is true for the
\* kinds compared in events.py (str/None/bool/dict, and a datetime against
\* the ISO string of old_data, which are never equal).
Val(k, s, n, a, o) == [kind |-> k, s |-> s, n |-> n, aware |-> a, off |-> o]
None == Val("none", "", 0, FALSE, 0)
Str(s) == Val("str", s, 0, FALSE, 0)
Bool(b) == Val("bool", "", IF b THEN 1 ELSE 0, FALSE, 0)
\* datetime: n minutes on the wall clock, aware with utc offset off, or naive
Dt(n, a, o) == Val("datetime", "", n, a, o)
\* str produced by datetime.isoformat(): carries the offset suffix iff aware
IsoStr(n, a, o) == Val("isostr", "", n, a, o)
\* RecurrencePattern.dict(): frequency s, until = datetime (n, aware, off)
Rec(s, n, a, o) == Val("rec", s, n, a, o)
\* the same dict after recurrence['until'] = until_dt.isoformat()
RecIso(s, n, a, o) == Val("reciso", s, n, a, o)

Fields == {"title", "description", "start_time", "end_time", "location",
           "is_recurring", "recurrence_pattern"}

\* IST = pytz.timezone('Asia/Kolkata'): +05:30
IST == 330

isoformat(v) == IsoStr(v.n, v.aware, v.off)

\* a conversion that takes a datetime without offset as UTC
convert_to_utc_naive_is_utc(dt) == Dt(dt.n - dt.off, FALSE, 0)

convert_to_utc(dt) ==
    LET loc == IF dt.aware THEN dt ELSE Dt(dt.n, TRUE, IST)
    IN  Dt(loc.n - loc.off, FALSE, 0)

\* a conversion that attaches the IST offset without moving the clock
convert_to_ist_relabel(dt) == Dt(dt.n, TRUE, IST)

convert_to_ist(dt) ==
    LET loc == IF dt.aware THEN dt ELSE Dt(dt.n, TRUE, 0)
    IN  Dt(loc.n - loc.off + IST, TRUE, IST)

\* TZDateTime: what reaches the column, and what a load returns
process_bind_param(v) ==
    IF v.kind = "datetime" /\ v.aware THEN Dt(v.n - v.off, FALSE, 0) ELSE v

process_result_value(v) ==
    IF v.kind = "datetime" THEN Dt(v.n, TRUE, 0) ELSE v

\* --------------------------------------------------------------- UserRole
RoleNames == {"OWNER", "EDITOR", "VIEWER"}

UserRoleValue(name) ==
    CASE name = "OWNER" -> "owner"
      [] name = "EDITOR" -> "editor"
      [] name = "VIEWER" -> "viewer"

RoleValues == {UserRoleValue(nm) : nm \in RoleNames}

\* first code point of the three role values; they differ there, so
\* Python's str "<" on two of them is "<" on these
CodePoint(s) ==
    CASE s = "editor" -> 101
      [] s = "owner" -> 111
      [] s = "viewer" -> 118

StrLess(a, b) == CodePoint(a) < CodePoint(b)

\* ------------------------------------------------------------------ store
VARIABLES
    events,     \* table events: id -> row, for the ids that exist
    versions,   \* table event_versions
    changes,    \* table event_changes
    perms,      \* table event_permissions
    nextEventId,\* the primary-key sequence of events
    req,        \* the requests in flight: one session and handler frame each
    last        \* the request that returned or raised last, and its response

vars == <<events, versions, changes, perms, nextEventId, req, last>>
store == <<events, versions, changes, perms>>

EmptyDict == [k \in {} |-> None]
\* updated_at is kept as the number of UPDATE statements the row has seen
\* (models/base.py 13: onupdate)
NoEvent ==
    [f |-> EmptyDict, owner_id |-> 0, current_version |-> 0, updated_at |-> 0]
NoKids == [v |-> {}, c |-> {}, p |-> {}]
\* scalar_one_or_none() of a SELECT on event_versions that matched no row
NoVersion == [found |-> FALSE, version_number |-> 0, data |-> EmptyDict]
\* a response without a body the claims look at
NoBody ==
    [a |-> 0, b |-> 0, diffs |-> {}, rows |-> <<>>,
     sent |-> EmptyDict, times |-> EmptyDict, events |-> {}, data |-> EmptyDict]

\* A child row carries, in place of its surrogate id, its rank among the rows
\* of equal content: two INSERTs of the same values are two rows.
Same(x, y) == [x EXCEPT !.copy = 0] = [y EXCEPT !.copy = 0]

Inserted(table, pend) ==
    table \cup {[pend[i] EXCEPT !.copy =
                    1 + Cardinality({x \in table : Same(x, pend[i])})]
                  : i \in 1..Len(pend)}

IdleReq ==
    [op |-> "none", pc |-> "idle", user |-> 0, eid |-> 0, target |-> 0,
     required |-> "", ev |-> NoEvent, old |-> EmptyDict, upd |-> EmptyDict,
     dirty |-> {}, pendV |-> <<>>, pendC |-> <<>>, kids |-> NoKids,
     v1 |-> NoVersion, sent |-> EmptyDict]

\* ----------------------------------------------------------- request inputs
T0900 == Dt(540, FALSE, 0)
T0930 == Dt(570, FALSE, 0)

FullInput(title, st, en, loc) ==
    [k \in Fields |->
        CASE k = "title" -> Str(title)
          [] k = "description" -> None
          [] k = "start_time" -> st
          [] k = "end_time" -> en
          [] k = "location" -> loc
          [] k = "is_recurring" -> Bool(FALSE)
          [] k = "recurrence_pattern" -> None]

\* EventCreate bodies: every field is present after event_in.dict()
CreateInputs ==
    {FullInput("Standup", T0900, T0930, None)}

\* EventUpdate bodies after dict(exclude_unset=True): only the fields set
UpdateInputs ==
    {EmptyDict,
     [k \in {"title"} |-> Str("Daily")],
     [k \in {"start_time", "end_time"} |->
         IF k = "start_time" THEN T0900 ELSE T0930]}

TimeFields == {"start_time", "end_time"}

\* timestamps of request bodies: without an offset, and with the offsets
\* +00:00, +05:30 and -05:00
TimeInputs ==
    {Dt(0, FALSE, 0), T0900, T0930,
     Dt(540, TRUE, 0), Dt(540, TRUE, IST), Dt(540, TRUE, -300)}

\* bodies for the handling of input: a start_time of each kind, an end_time
\* before the start_time, a title that is the empty string
TimedCreateInputs ==
    {FullInput("Standup", st, T0930, None) : st \in TimeInputs}
    \cup {FullInput("Standup", T0930, T0900, None),
          FullInput("", T0900, T0930, None)}

TimedUpdateInputs ==
    {[k \in {"title"} |-> Str("")]}
    \cup {[k \in {"start_time"} |-> t]
             : t \in {T0900, Dt(540, TRUE, 0), Dt(540, TRUE, -300)}}
    \cup {[k \in {"end_time"} |-> Dt(0, FALSE, 0)]}

\* the timestamps of a request body
SentTimes(inp) == [k \in DOMAIN inp \cap TimeFields |-> inp[k]]

\* schemas/event.py 16 and 28: title is constr(min_length=1, max_length=200);
\* no validator relates end_time to start_time
ValidBody(inp) == "title" \in DOMAIN inp => inp["title"] # Str("")

\* events.py 163-164, 216-217, 300-301: the times of the event object in the
\* response, after convert_to_ist
ResponseTimes(ev) == [k \in TimeFields |-> convert_to_ist(ev.f[k])]

\* ------------------------------------------------------- handler fragments
\* events.py 107-114 / 250-256: the recurrence dict as it is stored
StoredRecurrence(rp) ==
    IF rp.kind = "rec"
    THEN LET u == convert_to_utc(Dt(rp.n, rp.aware, rp.off))
         IN  RecIso(rp.s, u.n, u.aware, u.off)
    ELSE rp

\* the ORM object of a row as a SELECT or refresh returns it
LoadEvent(row) ==
    [row EXCEPT !.f = [k \in Fields |-> process_result_value(row.f[k])]]

\* events.py 133-141 and 232-240: the seven-field dict of an ORM object
SnapshotOf(ev) ==
    [k \in Fields |-> IF k \in TimeFields THEN isoformat(ev.f[k]) ELSE ev.f[k]]

\* an event row that records no owner
NewEventRowUnowned(inp, user) ==
    [f |-> [k \in Fields |->
               IF k \in TimeFields THEN process_bind_param(convert_to_utc(inp[k]))
               ELSE IF k = "recurrence_pattern" THEN StoredRecurrence(inp[k])
               ELSE inp[k]],
     owner_id |-> 0,
     current_version |-> 1,
     updated_at |-> 0]

\* events.py 101-127: the row create_event inserts
NewEventRow(inp, user) ==
    [f |-> [k \in Fields |->
               IF k \in TimeFields THEN process_bind_param(convert_to_utc(inp[k]))
               ELSE IF k = "recurrence_pattern" THEN StoredRecurrence(inp[k])
               ELSE inp[k]],
     owner_id |-> user,
     current_version |-> 1,
     updated_at |-> 0]

\* events.py 242-256: update_data
UpdateData(inp) ==
    [k \in DOMAIN inp |->
        IF k \in TimeFields THEN convert_to_utc(inp[k])
        ELSE IF k = "recurrence_pattern" THEN StoredRecurrence(inp[k])
        ELSE inp[k]]

\* events.py 265-268: the data of the version an update writes
UpdateVersionData(ev, upd) ==
    [k \in DOMAIN upd |->
        IF upd[k].kind = "datetime" THEN isoformat(upd[k]) ELSE upd[k]]

\* events.py 278-285: the changes of the change row an update writes
UpdateChanges(old, upd) ==
    [k \in {j \in DOMAIN upd : old[j] # upd[j]} |->
        [old |-> old[k],
         new |-> IF upd[k].kind = "datetime" THEN isoformat(upd[k]) ELSE upd[k]]]

\* events.py 85: UserRole[permission.role].value < required_role.value
RoleCheck(role, required) ==
    IF role \notin RoleNames THEN "KeyError"
    ELSE IF StrLess(UserRoleValue(role), UserRoleValue(required)) THEN "Forbidden"
    ELSE "ok"

\* a resolver that lets a principal without a permission row through
PermissionDecisionOpen(rows, required) ==
    IF Cardinality(rows) > 1 THEN "MultipleResultsFound"
    ELSE IF rows = {} THEN "ok"
    ELSE RoleCheck((CHOOSE p \in rows : TRUE).role, required)

\* events.py 76-91: the decision for a principal who is not the owner
PermissionDecision(rows, required) ==
    IF Cardinality(rows) > 1 THEN "MultipleResultsFound"
    ELSE IF rows = {} THEN "Forbidden"
    ELSE RoleCheck((CHOOSE p \in rows : TRUE).role, required)

\* the role each handler passes to check_event_permission
RequiredRole(op) ==
    CASE op = "update" -> "EDITOR"
      [] op = "delete" -> "OWNER"
      [] op = "share" -> "OWNER"
      [] OTHER -> "VIEWER"

\* the string a UserRole member binds to a String(20) column
StoredRole(member) == UserRoleValue(member)

PermRowsOf(eid, user) == {p \in perms : p.event_id = eid /\ p.user_id = user}
VersionsOf(eid) == {v \in versions : v.event_id = eid}
ChangesOf(eid) == {c \in changes : c.event_id = eid}
PermsOf(eid) == {p \in perms : p.event_id = eid}

\* the handler has returned or raised: the session is closed and the frame
\* is gone; the caller gets the response
Outcome(r, outcome) ==
    [op |-> req[r].op, user |-> req[r].user, eid |-> req[r].eid,
     at |-> req[r].pc, resp |-> outcome, body |-> NoBody]

NoOutcome ==
    [op |-> "none", user |-> 0, eid |-> 0, at |-> "idle", resp |-> "none",
     body |-> NoBody]

Finish(r, outcome) ==
    /\ req' = [req EXCEPT ![r] = IdleReq]
    /\ last' = Outcome(r, outcome)

\* the same, for a handler whose response body the claims look at
FinishWith(r, outcome, body) ==
    /\ req' = [req EXCEPT ![r] = IdleReq]
    /\ last' = [Outcome(r, outcome) EXCEPT !.body = body]

Goto(r, frame) ==
    /\ req' = [req EXCEPT ![r] = frame]
    /\ UNCHANGED last

Free(r) == req[r].pc = "idle"
EventIds == 1..MaxEvents
\* user ids are interchangeable: user 1 is the one who creates events
Creators == {1}

Init ==
    /\ events = [i \in {} |-> NoEvent]
    /\ versions = {}
    /\ changes = {}
    /\ perms = {}
    /\ nextEventId = 1
    /\ req = [r \in Reqs |-> IdleReq]
    /\ last = NoOutcome

\* -------------------------------------------------- check_event_permission
\* where a handler continues once check_event_permission has returned
BodyPc(op) ==
    CASE op = "update" -> "u_apply"
      [] op = "delete" -> "d_delete"
      [] op = "share" -> "s_exists"
      [] op = "diff" -> "f_first"
      [] op = "version" -> "h_select"
      [] op = "changelog" -> "l_select"
      [] OTHER -> "g_return"

\* events.py 63-74, the first call of every handler but create_event and
\* list_events: select the event; NotFound, or the owner passes
CheckEvent(r, op, user, eid) ==
    /\ Free(r)
    /\ LET frame == [IdleReq EXCEPT !.op = op, !.pc = "check_event",
                                    !.user = user, !.eid = eid,
                                    !.required = RequiredRole(op)]
       IN  IF eid \notin DOMAIN events
           THEN /\ req' = req
                /\ last' = [op |-> op, user |-> user, eid |-> eid,
                            at |-> "check_event", resp |-> "NotFound",
                            body |-> NoBody]
           ELSE LET ev == LoadEvent(events[eid])
                IN  Goto(r, [frame EXCEPT
                               !.ev = IF op \in {"update", "get"}
                                     THEN ev ELSE NoEvent,
                               !.pc = IF ev.owner_id = user
                                      THEN BodyPc(op) ELSE "check_perm"])
    /\ UNCHANGED <<store, nextEventId>>

\* events.py 76-91: select the permission row and compare the roles
CheckPerm(r) ==
    /\ req[r].pc = "check_perm"
    /\ LET d == PermissionDecision(PermRowsOf(req[r].eid, req[r].user),
                                   req[r].required)
       IN  IF d = "ok"
           THEN Goto(r, [req[r] EXCEPT !.pc = BodyPc(req[r].op)])
           ELSE Finish(r, d)
    /\ UNCHANGED <<store, nextEventId>>

\* ------------------------------------------------------------ create_event
\* events.py 95-129: build the Event, db.add, first db.commit(), for a body
\* that passed the validation of EventCreate
CreateEventWith(r, inputs) ==
    /\ Free(r)
    /\ nextEventId <= MaxEvents
    /\ \E u \in Creators, inp \in {i \in inputs : ValidBody(i)} :
          /\ events' = events @@ (nextEventId :> NewEventRow(inp, u))
          /\ Goto(r, [IdleReq EXCEPT !.op = "create", !.pc = "c_refresh",
                                     !.user = u, !.eid = nextEventId,
                                     !.sent = SentTimes(inp)])
    /\ nextEventId' = nextEventId + 1
    /\ UNCHANGED <<versions, changes, perms>>

CreateEvent(r) == CreateEventWith(r, CreateInputs)

\* a body that fails the validation of the schema is answered 422 before
\* the handler runs
RejectBody(r, op, users, inputs) ==
    /\ Free(r)
    /\ \E u \in users, inp \in {i \in inputs : ~ValidBody(i)} :
         last' = [op |-> op, user |-> u, eid |-> 0, at |-> "validation",
                  resp |-> "ValidationError",
                  body |-> [NoBody EXCEPT !.sent = SentTimes(inp)]]
    /\ UNCHANGED <<store, nextEventId, req>>

\* events.py 130-158: db.refresh(event) reads the committed row back;
\* version 1 and the CREATE change are added to the session
CreateRecord(r) ==
    /\ req[r].pc = "c_refresh"
    /\ IF req[r].eid \notin DOMAIN events
       THEN Finish(r, "InvalidRequestError")
       ELSE LET ev == LoadEvent(events[req[r].eid])
                version_data == SnapshotOf(ev)
            IN  Goto(r, [req[r] EXCEPT
                   !.ev = ev,
                   !.pendV = <<[event_id |-> req[r].eid, version_number |-> 1,
                                data |-> version_data, copy |-> 0]>>,
                   !.pendC = <<[event_id |-> req[r].eid,
                                user_id |-> req[r].user,
                                version_number |-> 1, change_type |-> "CREATE",
                                changes |-> version_data, copy |-> 0]>>,
                   !.pc = "c_commit"])
    /\ UNCHANGED <<store, nextEventId>>

\* events.py 160-165: second db.commit(); the foreign keys of
\* create_tables.py 75 and 90 reject the rows of an event that is gone
CreateCommit(r) ==
    /\ req[r].pc = "c_commit"
    /\ IF req[r].eid \notin DOMAIN events
       THEN /\ Finish(r, "IntegrityError")
            /\ UNCHANGED <<store, nextEventId>>
       ELSE /\ versions' = Inserted(versions, req[r].pendV)
            /\ changes' = Inserted(changes, req[r].pendC)
            /\ FinishWith(r, "ok", [NoBody EXCEPT
                                      !.sent = req[r].sent,
                                      !.times = ResponseTimes(req[r].ev)])
            /\ UNCHANGED <<events, perms, nextEventId>>

\* --------------------------------------------------------------- get_event
\* events.py 207-213
GetEvent(r) ==
    \E u \in Users, e \in EventIds : CheckEvent(r, "get", u, e)

\* a comparison that takes two datetimes of one instant and different
\* offsets for different values
is_identical(x, y) == x = y

\* Python's == on two column values, by which the flush decides whether an
\* assigned attribute has changed: two aware datetimes are equal when they
\* are the same instant, an aware and a naive one never
is_equal(x, y) ==
    IF x.kind = "datetime" /\ y.kind = "datetime"
    THEN IF x.aware /\ y.aware THEN x.n - x.off = y.n - y.off
         ELSE IF ~x.aware /\ ~y.aware THEN x.n = y.n
         ELSE FALSE
    ELSE x = y

\* database.py 31-32: the commit of get_db after the handler has returned
\* flushes the event object whose times were assigned (events.py 200-201,
\* 216-217): an UPDATE of the attributes whose value is not equal to the
\* loaded one, if there is any
TrailingCommit(row, loaded) ==
    LET assigned == ResponseTimes(loaded)
        dirty == {k \in TimeFields : ~is_equal(assigned[k], loaded.f[k])}
    IN  IF dirty = {} THEN row
        ELSE [row EXCEPT
                !.f = [k \in Fields |->
                         IF k \in dirty THEN process_bind_param(assigned[k])
                         ELSE row.f[k]],
                !.updated_at = @ + 1]

\* events.py 215-219 and database.py 31-32: get_event returns the event with
\* its times in IST, then the session is committed
GetReturn(r) ==
    /\ req[r].pc = "g_return"
    /\ events' = [e \in DOMAIN events |->
                    IF e = req[r].eid THEN TrailingCommit(events[e], req[r].ev)
                    ELSE events[e]]
    /\ FinishWith(r, "ok", [NoBody EXCEPT !.times = ResponseTimes(req[r].ev)])
    /\ UNCHANGED <<versions, changes, perms, nextEventId>>

\* ------------------------------------------------------------ update_event
\* events.py 223-230
UpdateEvent(r) ==
    \E u \in Users, e \in EventIds :
        /\ e \in DOMAIN events => events[e].current_version < MaxVersion
        /\ CheckEvent(r, "update", u, e)

\* events.py 232-275: old_data, update_data, setattr, current_version += 1,
\* db.add(version)
UpdateApplyWith(r, inputs) ==
    /\ req[r].pc = "u_apply"
    /\ \E inp \in {i \in inputs : ValidBody(i)} :
         LET ev == req[r].ev
             upd == UpdateData(inp)
             nev == [ev EXCEPT
                       !.f = [k \in Fields |->
                                IF k \in DOMAIN upd THEN upd[k] ELSE ev.f[k]],
                       !.current_version = @ + 1]
         IN  Goto(r, [req[r] EXCEPT
                   !.old = SnapshotOf(ev),
                   !.upd = upd,
                   !.sent = SentTimes(inp),
                   !.dirty = {k \in DOMAIN upd : upd[k] # ev.f[k]},
                   !.ev = nev,
                   !.pendV = <<[event_id |-> req[r].eid,
                                version_number |-> nev.current_version,
                                data |-> UpdateVersionData(nev, upd),
                                copy |-> 0]>>,
                   !.pc = "u_record"])
    /\ UNCHANGED <<store, nextEventId>>

UpdateApply(r) == UpdateApplyWith(r, UpdateInputs)

\* events.py 277-294: changes, db.add(change)
UpdateRecord(r) ==
    /\ req[r].pc = "u_record"
    /\ Goto(r, [req[r] EXCEPT
             !.pendC = <<[event_id |-> req[r].eid, user_id |-> req[r].user,
                          version_number |-> req[r].ev.current_version,
                          change_type |-> "UPDATE",
                          changes |-> UpdateChanges(req[r].old, req[r].upd),
                          copy |-> 0]>>,
             !.old = EmptyDict, !.upd = EmptyDict,
             !.pc = "u_commit"])
    /\ UNCHANGED <<store, nextEventId>>

\* a flush that leaves current_version out of the UPDATE
FlushedEventNoBump(row, ev, dirty) ==
    [row EXCEPT
       !.f = [k \in Fields |->
                IF k \in dirty THEN process_bind_param(ev.f[k]) ELSE row.f[k]],
       !.updated_at = @ + 1]

\* the UPDATE a flush issues for the event object: the attributes that were
\* set to a new value, and current_version
FlushedEvent(row, ev, dirty) ==
    [row EXCEPT
       !.f = [k \in Fields |->
                IF k \in dirty THEN process_bind_param(ev.f[k]) ELSE row.f[k]],
       !.current_version = ev.current_version,
       !.updated_at = @ + 1]

\* an update that keeps only the newest EventVersion row of the event
UpdateCommitKeepsLatest(r) ==
    /\ req[r].pc = "u_commit"
    /\ req[r].eid \in DOMAIN events
    /\ events' = [events EXCEPT ![req[r].eid] =
                     FlushedEvent(@, req[r].ev, req[r].dirty)]
    /\ versions' = Inserted(versions \ VersionsOf(req[r].eid), req[r].pendV)
    /\ changes' = Inserted(changes, req[r].pendC)
    /\ Finish(r, "ok")
    /\ UNCHANGED <<perms, nextEventId>>

\* events.py 296-302: db.commit() flushes the UPDATE and the two INSERTs in one
\* transaction; an UPDATE that matches no row raises StaleDataError
UpdateCommit(r) ==
    /\ req[r].pc = "u_commit"
    /\ IF req[r].eid \notin DOMAIN events
       THEN /\ Finish(r, "StaleDataError")
            /\ UNCHANGED <<store, nextEventId>>
       ELSE /\ events' = [events EXCEPT ![req[r].eid] =
                            FlushedEvent(@, req[r].ev, req[r].dirty)]
            /\ versions' = Inserted(versions, req[r].pendV)
            /\ changes' = Inserted(changes, req[r].pendC)
            /\ FinishWith(r, "ok", [NoBody EXCEPT
                    !.sent = req[r].sent,
                    !.times = ResponseTimes(LoadEvent(events'[req[r].eid]))])
            /\ UNCHANGED <<perms, nextEventId>>

\* ------------------------------------------------------------ delete_event
\* events.py 306-312
DeleteEvent(r) ==
    \E u \in Users, e \in EventIds : CheckEvent(r, "delete", u, e)

\* events.py 313: db.delete(event) loads the three cascade collections
\* (models/event.py 37-39) and marks them, and the event, deleted
DeleteMark(r) ==
    /\ req[r].pc = "d_delete"
    /\ Goto(r, [req[r] EXCEPT
                  !.kids = [v |-> VersionsOf(req[r].eid),
                            c |-> ChangesOf(req[r].eid),
                            p |-> PermsOf(req[r].eid)],
                  !.pc = "d_commit"])
    /\ UNCHANGED <<store, nextEventId>>

\* a child row of the event that the session did not load: the foreign keys
\* of create_tables.py 75, 90, 104 (no ON DELETE) then reject the DELETE
UnloadedChild(eid, kids) ==
    \/ VersionsOf(eid) \ kids.v # {}
    \/ ChangesOf(eid) \ kids.c # {}
    \/ PermsOf(eid) \ kids.p # {}

\* a delete whose cascade leaves the permission rows behind
DeleteCommitKeepsPermissions(r) ==
    /\ req[r].pc = "d_commit"
    /\ events' = [i \in DOMAIN events \ {req[r].eid} |-> events[i]]
    /\ versions' = versions \ req[r].kids.v
    /\ changes' = changes \ req[r].kids.c
    /\ Finish(r, "ok")
    /\ UNCHANGED <<perms, nextEventId>>

\* events.py 314-315: db.commit() deletes the loaded children, then the event
DeleteCommit(r) ==
    /\ req[r].pc = "d_commit"
    /\ IF req[r].eid \in DOMAIN events /\ UnloadedChild(req[r].eid, req[r].kids)
       THEN /\ Finish(r, "IntegrityError")
            /\ UNCHANGED <<store, nextEventId>>
       ELSE /\ events' = [i \in DOMAIN events \ {req[r].eid} |-> events[i]]
            /\ versions' = versions \ req[r].kids.v
            /\ changes' = changes \ req[r].kids.c
            /\ perms' = perms \ req[r].kids.p
            /\ Finish(r, "ok")
            /\ UNCHANGED nextEventId

\* ------------------------------------------------------------- share_event
\* events.py 319-326
ShareEvent(r) ==
    \E u \in Users, e \in EventIds : CheckEvent(r, "share", u, e)

\* a lookup that finds no permission row
existing_permission_none(eid, t) == {}

\* events.py 329-336: the rows the SELECT by (event_id, user_id) matches
existing_permission(eid, t) == PermRowsOf(eid, t)

\* events.py 328-342: a row for (event_id, permission_in.user_id) is a 400
ShareExists(r) ==
    /\ req[r].pc = "s_exists"
    /\ \E t \in Users :
         LET rows == existing_permission(req[r].eid, t)
         IN  IF Cardinality(rows) > 1 THEN Finish(r, "MultipleResultsFound")
             ELSE IF rows # {} THEN Finish(r, "PermissionExists")
             ELSE Goto(r, [req[r] EXCEPT !.target = t, !.pc = "s_commit"])
    /\ UNCHANGED <<store, nextEventId>>

\* a share that also makes the target the owner of the event
ShareCommitTransfers(r) ==
    /\ req[r].pc = "s_commit"
    /\ req[r].eid \in DOMAIN events
    /\ \E role \in RoleNames :
          perms' = Inserted(perms,
                     <<[event_id |-> req[r].eid, user_id |-> req[r].target,
                        role |-> StoredRole(role), copy |-> 0]>>)
    /\ events' = [events EXCEPT ![req[r].eid].owner_id = req[r].target]
    /\ Finish(r, "ok")
    /\ UNCHANGED <<versions, changes, nextEventId>>

\* events.py 344-352: insert the permission row and commit
ShareCommit(r) ==
    /\ req[r].pc = "s_commit"
    /\ IF req[r].eid \notin DOMAIN events
       THEN /\ Finish(r, "IntegrityError")
            /\ UNCHANGED <<store, nextEventId>>
       ELSE /\ \E role \in RoleNames :
                 perms' = Inserted(perms,
                            <<[event_id |-> req[r].eid,
                               user_id |-> req[r].target,
                               role |-> StoredRole(role), copy |-> 0]>>)
            /\ Finish(r, "ok")
            /\ UNCHANGED <<events, versions, changes, nextEventId>>

\* ------------------------------------------------------------- list_events
\* a selection that leaves the caller out of the WHERE clause
every_event(u) == DOMAIN events

\* events.py 178-187: the events whose owner_id is the caller's id or whose id
\* is the event_id of a permission row of the caller
listed_events(u) ==
    {e \in DOMAIN events :
        \/ events[e].owner_id = u
        \/ e \in {p.event_id : p \in {q \in perms : q.user_id = u}}}

\* events.py 169-203 and database.py 31-32: one SELECT, no
\* check_event_permission, without date filter and with the default skip and
\* limit; the times of the listed events are assigned in IST, the list is
\* returned and the session committed
ListEvents(r) ==
    /\ Free(r)
    /\ \E u \in Users :
         LET listed == listed_events(u)
         IN  /\ events' = [e \in DOMAIN events |->
                             IF e \in listed
                             THEN TrailingCommit(events[e], LoadEvent(events[e]))
                             ELSE events[e]]
             /\ last' = [op |-> "list", user |-> u, eid |-> 0,
                         at |-> "list_select", resp |-> "ok",
                         body |-> [NoBody EXCEPT !.events = listed]]
    /\ UNCHANGED <<versions, changes, perms, nextEventId, req>>

\* ------------------------------------------------------- get_event_version
\* events.py 356-363
GetEventVersion(r) ==
    \E u \in Users, e \in EventIds : CheckEvent(r, "version", u, e)

\* events.py 365-380: select the version numbered version_id; NotFound if
\* there is none, else the row
VersionReturn(r) ==
    /\ req[r].pc = "h_select"
    /\ \E n \in 1..MaxVersion :
         LET rows == {v \in VersionsOf(req[r].eid) : v.version_number = n}
         IN  IF Cardinality(rows) > 1 THEN Finish(r, "MultipleResultsFound")
             ELSE IF rows = {} THEN Finish(r, "NotFound")
             ELSE FinishWith(r, "ok",
                    [NoBody EXCEPT !.a = n,
                                   !.data = (CHOOSE v \in rows : TRUE).data])
    /\ UNCHANGED <<store, nextEventId>>

\* ----------------------------------------------------- get_event_changelog
\* events.py 384-390
GetEventChangelog(r) ==
    \E u \in Users, e \in EventIds : CheckEvent(r, "changelog", u, e)

\* every way of listing the rows of a set
RECURSIVE Orderings(_)
Orderings(S) ==
    IF S = {} THEN {<<>>}
    ELSE UNION {{<<x>> \o t : t \in Orderings(S \ {x})} : x \in S}

\* a listing by ascending version_number
order_by_version_asc(rows) ==
    {q \in Orderings(rows) :
        \A i, j \in 1..Len(q) :
            i < j => q[i].version_number <= q[j].version_number}

\* events.py 394: order_by(EventChangeModel.version_number.desc()); rows of
\* equal version_number come in an order the database chooses
order_by_version_desc(rows) ==
    {q \in Orderings(rows) :
        \A i, j \in 1..Len(q) :
            i < j => q[i].version_number >= q[j].version_number}

\* events.py 392-399: select the change rows of the event and return them
ChangelogReturn(r) ==
    /\ req[r].pc = "l_select"
    /\ \E q \in order_by_version_desc(ChangesOf(req[r].eid)) :
         FinishWith(r, "ok", [NoBody EXCEPT !.rows = q])
    /\ UNCHANGED <<store, nextEventId>>

\* ---------------------------------------------------------- get_event_diff
VersionIds == 1..MaxVersion

\* events.py 414-421 and 424-431: the rows a SELECT by version_number matches
VersionRows(eid, n) == {v \in VersionsOf(eid) : v.version_number = n}

\* a lookup that tells an absent key from a key whose value is None
dict_get_sentinel(d, k) ==
    IF k \in DOMAIN d THEN d[k] ELSE Val("absent", "", 0, FALSE, 0)

\* dict.get(field): None for a key the dict does not have
dict_get(d, k) == IF k \in DOMAIN d THEN d[k] ELSE None

\* a diff that looks only at the fields of the first snapshot
EventDiffsOneWay(d1, d2) ==
    {[field |-> f, old_value |-> dict_get(d1, f),
      new_value |-> dict_get(d2, f)]
       : f \in {g \in DOMAIN d1 : dict_get(d1, g) # dict_get(d2, g)}}

\* events.py 439-452: one EventDiff for each field of either snapshot whose
\* two values differ; the list is built in set order, so it is a set here
EventDiffs(d1, d2) ==
    LET all_fields == DOMAIN d1 \cup DOMAIN d2
    IN  {[field |-> f, old_value |-> dict_get(d1, f),
          new_value |-> dict_get(d2, f)]
           : f \in {g \in all_fields : dict_get(d1, g) # dict_get(d2, g)}}

\* events.py 403-411
GetEventDiff(r) ==
    \E u \in Users, e \in EventIds : CheckEvent(r, "diff", u, e)

\* events.py 413-421: select the version numbered version_id1
DiffFirst(r) ==
    /\ req[r].pc = "f_first"
    /\ \E a \in VersionIds :
         LET rows == VersionRows(req[r].eid, a)
         IN  IF Cardinality(rows) > 1 THEN Finish(r, "MultipleResultsFound")
             ELSE Goto(r, [req[r] EXCEPT
                     !.v1 = IF rows = {}
                            THEN [NoVersion EXCEPT !.version_number = a]
                            ELSE LET v == CHOOSE x \in rows : TRUE
                                 IN  [found |-> TRUE, version_number |-> a,
                                      data |-> v.data],
                     !.pc = "f_second"])
    /\ UNCHANGED <<store, nextEventId>>

\* events.py 423-452: select the version numbered version_id2; NotFound if
\* either is missing, else the list of EventDiff
DiffSecond(r) ==
    /\ req[r].pc = "f_second"
    /\ \E b \in VersionIds :
         LET rows == VersionRows(req[r].eid, b)
             v1 == req[r].v1
         IN  IF Cardinality(rows) > 1 THEN Finish(r, "MultipleResultsFound")
             ELSE IF ~v1.found \/ rows = {}
             THEN FinishWith(r, "NotFound",
                             [NoBody EXCEPT !.a = v1.version_number, !.b = b])
             ELSE LET v2 == CHOOSE x \in rows : TRUE
                  IN  FinishWith(r, "ok",
                                 [NoBody EXCEPT
                                    !.a = v1.version_number, !.b = b,
                                    !.diffs = EventDiffs(v1.data, v2.data)])
    /\ UNCHANGED <<store, nextEventId>>

\* ------------------------------------------------------------------ failure
\* database.py 28-37: an exception in the handler (a store call that fails,
\* a cancelled request) rolls the session back: what the session has added
\* and not committed is dropped, what was committed stays
RolledBackKeepsVersion(s, session) ==
    <<s[1], Inserted(s[2], session.pendV), s[3], s[4]>>

RolledBack(s, session) == s

Fail(r) ==
    /\ ~Free(r)
    /\ events' = RolledBack(store, req[r])[1]
    /\ versions' = RolledBack(store, req[r])[2]
    /\ changes' = RolledBack(store, req[r])[3]
    /\ perms' = RolledBack(store, req[r])[4]
    /\ Finish(r, "StorageFailure")
    /\ UNCHANGED nextEventId

\* -------------------------------------------------------------- behaviours
\* the first step of each handler: it is taken by a request slot that is free
Begin(r) ==
    \/ CreateEvent(r) \/ GetEvent(r) \/ UpdateEvent(r)
    \/ DeleteEvent(r) \/ ShareEvent(r) \/ GetEventDiff(r)
    \/ ListEvents(r) \/ GetEventVersion(r) \/ GetEventChangelog(r)

\* the later steps of the handlers
Continue(r) ==
    \/ CreateRecord(r) \/ CreateCommit(r)
    \/ GetReturn(r)
    \/ UpdateApply(r) \/ UpdateRecord(r) \/ UpdateCommit(r)
    \/ DeleteMark(r) \/ DeleteCommit(r)
    \/ ShareExists(r) \/ ShareCommit(r)
    \/ DiffFirst(r) \/ DiffSecond(r)
    \/ VersionReturn(r) \/ ChangelogReturn(r)
    \/ CheckPerm(r)

Step(r) == Begin(r) \/ Continue(r)

\* requests run in parallel, and any of them may fail at any point
Next == \E r \in Reqs : Step(r) \/ Fail(r)

Spec == Init /\ [][Next]_vars

AllFree == \A r \in Reqs : Free(r)

\* one request at a time, each running to its end: a request begins only
\* when no other is in flight
NextSeq ==
    \E r \in Reqs :
        \/ AllFree /\ CreateEvent(r)
        \/ AllFree /\ GetEvent(r)
        \/ AllFree /\ UpdateEvent(r)
        \/ AllFree /\ DeleteEvent(r)
        \/ AllFree /\ ShareEvent(r)
        \/ AllFree /\ GetEventDiff(r)
        \/ AllFree /\ ListEvents(r)
        \/ AllFree /\ GetEventVersion(r)
        \/ AllFree /\ GetEventChangelog(r)
        \/ Continue(r)

SpecSeq == Init /\ [][NextSeq]_vars

\* create, update and delete requests in parallel, with failures
Versioning(r) ==
    \/ CreateEvent(r) \/ CreateRecord(r) \/ CreateCommit(r)
    \/ UpdateEvent(r) \/ UpdateApply(r) \/ UpdateRecord(r) \/ UpdateCommit(r)
    \/ DeleteEvent(r) \/ DeleteMark(r) \/ DeleteCommit(r)
    \/ CheckPerm(r)

NextVersioning == \E r \in Reqs : Versioning(r) \/ Fail(r)

SpecVersioning == Init /\ [][NextVersioning]_vars

\* no create_event request is in flight
NoCreate == \A q \in Reqs : req[q].op # "create"

\* an event is created by a request that runs alone; update requests then
\* run in parallel, none of them failing
Updating(r) ==
    \/ AllFree /\ CreateEvent(r)
    \/ CreateRecord(r) \/ CreateCommit(r)
    \/ NoCreate /\ UpdateEvent(r)
    \/ UpdateApply(r) \/ UpdateRecord(r) \/ UpdateCommit(r)
    \/ CheckPerm(r)

NextUpdates == \E r \in Reqs : Updating(r)

SpecUpdates == Init /\ [][NextUpdates]_vars

\* an event is created by a request that runs alone; share and delete
\* requests then run in parallel, none of them failing
Sharing(r) ==
    \/ AllFree /\ CreateEvent(r)
    \/ CreateRecord(r) \/ CreateCommit(r)
    \/ NoCreate /\ ShareEvent(r)
    \/ ShareExists(r) \/ ShareCommit(r)
    \/ NoCreate /\ DeleteEvent(r)
    \/ DeleteMark(r) \/ DeleteCommit(r)
    \/ CheckPerm(r)

NextSharing == \E r \in Reqs : Sharing(r)

SpecSharing == Init /\ [][NextSharing]_vars

\* one request at a time; create_event and update_event with bodies of any
\* timestamps and titles, get_event to read the event back
NextInputs ==
    \E r \in Reqs :
        \/ AllFree /\ CreateEventWith(r, TimedCreateInputs)
        \/ AllFree /\ RejectBody(r, "create", Creators, TimedCreateInputs)
        \/ CreateRecord(r) \/ CreateCommit(r)
        \/ AllFree /\ UpdateEvent(r)
        \/ AllFree /\ RejectBody(r, "update", Users, TimedUpdateInputs)
        \/ UpdateApplyWith(r, TimedUpdateInputs)
        \/ UpdateRecord(r) \/ UpdateCommit(r)
        \/ AllFree /\ GetEvent(r)
        \/ GetReturn(r)
        \/ CheckPerm(r)

SpecInputs == Init /\ [][NextInputs]_vars

\* ------------------------------------------------------------------ claims
VersionNumbers(eid) == {v.version_number : v \in VersionsOf(eid)}
CheckedOps ==
    {"get", "update", "delete", "share", "diff", "version", "changelog"}

\* C1: requests run one at a time; after every completed request the version
\* numbers of each existing event are exactly 1..current_version, each once.
C1_MonotonicVersioning ==
    AllFree =>
        \A e \in DOMAIN events :
            /\ VersionNumbers(e) = 1..events[e].current_version
            /\ Cardinality(VersionsOf(e)) = events[e].current_version

C1_Witness ==
    /\ AllFree
    /\ \E e \in DOMAIN events :
          /\ events[e].current_version >= 3
          /\ VersionNumbers(e) = 1..events[e].current_version

\* C2: under interleaved update_event requests no committed state holds two
\* EventVersion rows of one event with the same version_number, and once the
\* requests have committed current_version is the number of the event's
\* EventVersion rows.
C2_UniqueVersionNumbers ==
    \A e \in DOMAIN events :
        /\ \A v, w \in VersionsOf(e) :
               v.version_number = w.version_number => v = w
        /\ AllFree => events[e].current_version = Cardinality(VersionsOf(e))

\* C3: an event that exists in a committed state has the EventVersion row
\* and the EventChange row of its current_version: create_event makes the
\* three rows visible together, and a create_event that fails leaves no Event.
C3_CreateAtomic ==
    \A e \in DOMAIN events :
        /\ \E v \in VersionsOf(e) : v.version_number = events[e].current_version
        /\ \E c \in ChangesOf(e) : c.version_number = events[e].current_version

\* C4: an update_event request writes the event row, its EventVersion row and
\* its EventChange row together or not at all: a request that ends in a
\* failure, wherever it was, leaves the three tables as they were, and one
\* that succeeds has written all three with the same version number.
C4_UpdateAllOrNothing ==
    [][\A r \in Reqs :
          req[r].op = "update" /\ req'[r] # req[r] /\ Free(r)' =>
              IF last'.resp = "ok"
              THEN \E n \in 1..MaxVersion :
                     /\ req[r].eid \in DOMAIN events'
                     /\ events'[req[r].eid].current_version = n
                     /\ \E v \in versions' \ versions :
                            /\ versions' = versions \cup {v}
                            /\ v.event_id = req[r].eid /\ v.version_number = n
                     /\ \E c \in changes' \ changes :
                            /\ changes' = changes \cup {c}
                            /\ c.event_id = req[r].eid /\ c.version_number = n
              ELSE store' = store]_vars

\* an update has failed after db.add(version) and before db.add(change)
C4_Witness ==
    /\ last.op = "update" /\ last.at = "u_record"
    /\ last.resp = "StorageFailure"
    /\ last.eid \in DOMAIN events

\* C5: an update_event request of a non-owner who holds a viewer permission
\* fails Forbidden and leaves the store unchanged.
C5_ViewerUpdateForbidden ==
    [][\A r \in Reqs :
          /\ req[r].op = "update" /\ req[r].pc = "check_perm"
          /\ \E p \in PermRowsOf(req[r].eid, req[r].user) :
                 p.role = UserRoleValue("VIEWER")
          /\ req'[r] # req[r]
          => /\ Free(r)'
             /\ last'.resp \in {"Forbidden", "StorageFailure"}
             /\ store' = store]_vars

\* C6: delete_event and share_event of a user who is not the owner fail
\* Forbidden, whatever permission the user holds, and change nothing.
C6_OnlyOwnerDeletesShares ==
    [][\A r \in Reqs :
          /\ req[r].op \in {"delete", "share"} /\ req[r].pc = "check_perm"
          /\ req'[r] # req[r]
          => /\ Free(r)'
             /\ last'.resp \in {"Forbidden", "StorageFailure"}
             /\ store' = store]_vars

\* the total order of the roles: owner > editor > viewer
Rank(value) ==
    CASE value = "owner" -> 2
      [] value = "editor" -> 1
      [] value = "viewer" -> 0

\* C7: for a non-owner who holds a permission with role r, the check with
\* required role q grants access iff rank(r) >= rank(q), else fails Forbidden.
C7_RankOrder ==
    [][\A r \in Reqs :
          /\ req[r].pc = "check_perm"
          /\ Cardinality(PermRowsOf(req[r].eid, req[r].user)) = 1
          /\ req'[r] # req[r]
          => LET p == CHOOSE x \in PermRowsOf(req[r].eid, req[r].user) : TRUE
             IN  IF Rank(p.role) >= Rank(UserRoleValue(req[r].required))
                 THEN req'[r].pc = BodyPc(req[r].op)
                 ELSE Free(r)' /\ last'.resp = "Forbidden"]_vars

\* C8: check_event_permission fails NotFound when the event does not exist,
\* lets the owner through for every required role, and fails Forbidden for a
\* principal who is not the owner and has no permission row.
C8_NotFoundOwnerForbidden ==
    [][/\ last' # last /\ last'.at = "check_event"
           => /\ last'.eid \notin DOMAIN events
              /\ last'.resp = "NotFound"
              /\ UNCHANGED <<store, req>>
       /\ \A r \in Reqs :
           /\ Free(r) /\ ~Free(r)' /\ req'[r].op \in CheckedOps
                => /\ req'[r].eid \in DOMAIN events
                   /\ IF events[req'[r].eid].owner_id = req'[r].user
                      THEN req'[r].pc = BodyPc(req'[r].op)
                      ELSE req'[r].pc = "check_perm"
           /\ req[r].pc = "check_perm" /\ req'[r] # req[r]
              /\ PermRowsOf(req[r].eid, req[r].user) = {}
                => /\ Free(r)'
                   /\ last'.resp = "Forbidden"
                   /\ last'.op = req[r].op /\ last'.user = req[r].user
                   /\ store' = store]_vars

\* a principal who is neither the owner nor a permission holder has been
\* refused on an event that its owner has updated
C8_Witness ==
    /\ last.resp = "Forbidden" /\ last.at = "check_perm"
    /\ last.eid \in DOMAIN events
    /\ PermRowsOf(last.eid, last.user) = {}
    /\ events[last.eid].owner_id # last.user
    /\ events[last.eid].current_version > 1

\* C9: an update_event request of a user the owner has shared the event with
\* as editor passes the permission check and goes on to write its version.
C9_EditorUpdates ==
    [][\A r \in Reqs :
          /\ req[r].op = "update" /\ req[r].pc = "check_perm"
          /\ \E p \in PermRowsOf(req[r].eid, req[r].user) :
                 p.role = UserRoleValue("EDITOR")
          /\ req'[r] # req[r]
          => req'[r].pc = "u_apply"]_vars

\* C10: every EventVersion row holds all seven fields, and after a completed
\* create_event or update_event the data of the version numbered
\* current_version is the projection of the event row on the seven fields.
C10_CompleteSnapshots ==
    /\ \A v \in versions : DOMAIN v.data = Fields
    /\ AllFree =>
         \A e \in DOMAIN events : \A v \in VersionsOf(e) :
             v.version_number = events[e].current_version
                 => v.data = SnapshotOf(LoadEvent(events[e]))

\* C11: when create_event by user P returns, the new event has
\* current_version 1 and owner P, one EventVersion row (number 1) whose data
\* is the full state of the event, and one EventChange row (number 1, CREATE,
\* user P) whose changes equal that data.
C11_CreatePostcondition ==
    [][\A r \in Reqs :
          req[r].pc = "c_commit" /\ Free(r)' /\ last'.resp = "ok" =>
              LET e == req[r].eid
                  P == req[r].user
                  vs == {v \in versions' : v.event_id = e}
                  cs == {c \in changes' : c.event_id = e}
              IN  /\ e \in DOMAIN events'
                  /\ events'[e].current_version = 1
                  /\ events'[e].owner_id = P
                  /\ Cardinality(vs) = 1 /\ Cardinality(cs) = 1
                  /\ \A v \in vs, c \in cs :
                        /\ v.version_number = 1
                        /\ v.data = SnapshotOf(LoadEvent(events'[e]))
                        /\ c.version_number = 1
                        /\ c.change_type = "CREATE"
                        /\ c.user_id = P
                        /\ c.changes = v.data]_vars

\* create_event has returned the event it made
C11_Witness ==
    /\ last.op = "create" /\ last.at = "c_commit" /\ last.resp = "ok"
    /\ last.eid \in DOMAIN events
    /\ events[last.eid].owner_id = last.user
    /\ Cardinality(ChangesOf(last.eid)) = 1

\* C12: the EventChange row an update_event request writes has an entry for
\* exactly those fields the request set whose value in the event row differs
\* before and after the update, timestamps included, and each entry is
\* {old: the value before, new: the value after}.
C12_ChangesAreTheDifference ==
    [][\A r \in Reqs :
          req[r].pc = "u_commit" /\ Free(r)' /\ last'.resp = "ok" =>
              LET e == req[r].eid
                  F == DOMAIN req[r].pendV[1].data
                  before == SnapshotOf(LoadEvent(events[e]))
                  after == SnapshotOf(LoadEvent(events'[e]))
              IN  \A c \in changes' \ changes :
                    /\ DOMAIN c.changes =
                          {k \in F : events[e].f[k] # events'[e].f[k]}
                    /\ \A k \in DOMAIN c.changes :
                          c.changes[k] = [old |-> before[k], new |-> after[k]]]_vars

\* C13: when version b = a+1 of an event was written by an update_event
\* request that set exactly one field f and changed it, get_event_diff(a, b)
\* returns exactly one EventDiff: field f, old_value the value at version a,
\* new_value the value at version b.
C13_DiffOfOneFieldUpdate ==
    [][\A r \in Reqs :
          req[r].pc = "f_second" /\ Free(r)' /\ last'.resp = "ok" =>
              LET e == req[r].eid
                  a == last'.body.a
                  b == last'.body.b
              IN  \A va \in VersionRows(e, a), vb \in VersionRows(e, b) :
                    \A f \in Fields :
                      /\ b = a + 1
                      /\ DOMAIN vb.data = {f}
                      /\ f \in DOMAIN va.data /\ va.data[f] # vb.data[f]
                      => last'.body.diffs =
                            {[field |-> f, old_value |-> va.data[f],
                              new_value |-> vb.data[f]]}]_vars

\* the value the diff gives a field in a snapshot: the stored value, and
\* Python's None (what dict.get returns) for a field the snapshot lacks
ValueAt(data, f) == IF f \in DOMAIN data THEN data[f] ELSE None

\* C14: get_event_diff(event, a, b) fails NotFound if the event has no
\* version numbered a or none numbered b; otherwise it returns one EventDiff
\* for each field of the union of the two snapshots' keys whose values differ,
\* an absent field counting as the missing value, and no other EventDiff.
C14_DiffContract ==
    [][\A r \in Reqs :
          req[r].pc = "f_second" /\ Free(r)' =>
              LET e == req[r].eid
                  A == VersionRows(e, last'.body.a)
                  B == VersionRows(e, last'.body.b)
              IN  /\ store' = store
                  /\ IF A = {} \/ B = {}
                     THEN last'.resp = "NotFound"
                     ELSE /\ last'.resp = "ok"
                          /\ \A va \in A, vb \in B :
                               last'.body.diffs =
                                 {[field |-> f,
                                   old_value |-> ValueAt(va.data, f),
                                   new_value |-> ValueAt(vb.data, f)]
                                    : f \in {g \in DOMAIN va.data \cup DOMAIN vb.data :
                                               ValueAt(va.data, g) # ValueAt(vb.data, g)}}]_vars

\* a diff of an earlier against a later version has returned several fields
C14_Witness ==
    /\ last.op = "diff" /\ last.at = "f_second" /\ last.resp = "ok"
    /\ last.body.a < last.body.b
    /\ Cardinality(last.body.diffs) >= 2

\* old_value and new_value of every EventDiff exchanged
Swapped(diffs) ==
    {[field |-> d.field, old_value |-> d.new_value, new_value |-> d.old_value]
       : d \in diffs}

\* C15: for two stored versions a and b of an event, what get_event_diff
\* returns for (a, b) is what it returns for (b, a) with old_value and
\* new_value exchanged, and for (a, a) it returns no EventDiff.
C15_DiffSymmetry ==
    [][\A r \in Reqs :
          req[r].pc = "f_second" /\ Free(r)' /\ last'.resp = "ok" =>
              LET e == req[r].eid
                  a == last'.body.a
                  b == last'.body.b
              IN  /\ \A va \in VersionRows(e, a), vb \in VersionRows(e, b) :
                        last'.body.diffs = Swapped(EventDiffs(vb.data, va.data))
                  /\ a = b => last'.body.diffs = {}]_vars

\* a diff of a later against an earlier version has returned fields
C15_Witness ==
    /\ last.op = "diff" /\ last.at = "f_second" /\ last.resp = "ok"
    /\ last.body.a > last.body.b
    /\ last.body.diffs # {}

\* C16: a share_event request for a user who already has a permission row on
\* the event is rejected with the already-exists error and leaves the store
\* unchanged; it never goes on to insert, so the row keeps its role and the
\* pair (event_id, user_id) gets no second row.
C16_DuplicateShareRejected ==
    [][\A r \in Reqs :
          /\ req[r].pc = "s_exists" /\ req'[r] # req[r] =>
                /\ store' = store
                /\ IF Free(r)'
                   THEN /\ last'.resp = "PermissionExists"
                        /\ \E p \in perms : p.event_id = req[r].eid
                   ELSE /\ req'[r].pc = "s_commit"
                        /\ \A p \in perms :
                              ~(p.event_id = req[r].eid
                                /\ p.user_id = req'[r].target)
          /\ req[r].pc = "s_commit" /\ Free(r)' /\ last'.resp = "ok" =>
                /\ perms \subseteq perms'
                /\ Cardinality({p \in perms' : /\ p.event_id = req[r].eid
                                               /\ p.user_id = req[r].target}) = 1]_vars

\* the owner's second share for a user has been refused, the row is there
C16_Witness ==
    /\ last.op = "share" /\ last.at = "s_exists"
    /\ last.resp = "PermissionExists"
    /\ last.eid \in DOMAIN events
    /\ events[last.eid].owner_id = last.user
    /\ Cardinality(PermsOf(last.eid)) >= 1

\* C17: in every reachable state, interleaved share_event requests included,
\* there is at most one EventPermission row per (event_id, user_id).
C17_OnePermissionPerUser ==
    \A p, q \in perms :
        p.event_id = q.event_id /\ p.user_id = q.user_id => p = q

\* C18: every EventPermission row grants editor or viewer, never owner, and
\* its user_id is not the owner_id of its event.
C18_PermissionsForNonOwners ==
    \A p \in perms :
        /\ p.role \in {UserRoleValue("EDITOR"), UserRoleValue("VIEWER")}
        /\ p.event_id \in DOMAIN events
              => p.user_id # events[p.event_id].owner_id

\* the ids of events that were created and have been deleted
Deleted == {e \in EventIds : e < nextEventId /\ e \notin DOMAIN events}

\* no row of the three child tables refers to event e
NoRowsOf(e, vs, cs, ps) ==
    /\ \A v \in vs : v.event_id # e
    /\ \A c \in cs : c.event_id # e
    /\ \A p \in ps : p.event_id # e

\* C19: when delete_event succeeds the event and all its EventVersion,
\* EventChange and EventPermission rows are gone and no EventChange row was
\* written; from then on the id stays gone, gets no new rows, and every
\* operation on it fails NotFound.
C19_DeleteCascades ==
    [][/\ \A r \in Reqs :
            req[r].pc = "d_commit" /\ Free(r)' /\ last'.resp = "ok" =>
                /\ req[r].eid \notin DOMAIN events'
                /\ NoRowsOf(req[r].eid, versions', changes', perms')
                /\ changes' \subseteq changes
       /\ \A e \in Deleted :
            /\ e \notin DOMAIN events'
            /\ NoRowsOf(e, versions', changes', perms')
            /\ \A r \in Reqs : Free(r) /\ ~Free(r)' => req'[r].eid # e
            /\ last' # last /\ last'.eid = e /\ last'.at = "check_event"
                  => last'.resp = "NotFound"]_vars

\* an operation on an event that was deleted has failed NotFound
C19_Witness ==
    /\ last.eid \in Deleted
    /\ last.op \in {"update", "share", "diff"}
    /\ last.at = "check_event" /\ last.resp = "NotFound"
    /\ NoRowsOf(last.eid, versions, changes, perms)

\* C20: a step removes EventVersion or EventChange rows only as the commit
\* of a delete_event, and then only rows of the event it deletes; every other
\* step keeps each existing row as it is, create_event and update_event only
\* adding rows, share_event and the read operations leaving both tables as
\* they are.
C20_HistoryAppendOnly ==
    [][/\ \/ versions \subseteq versions' /\ changes \subseteq changes'
          \/ \E r \in Reqs :
                /\ req[r].pc = "d_commit" /\ Free(r)' /\ last'.resp = "ok"
                /\ req[r].eid \notin DOMAIN events'
                /\ \A v \in versions \ versions' : v.event_id = req[r].eid
                /\ \A c \in changes \ changes' : c.event_id = req[r].eid
                /\ versions' \subseteq versions /\ changes' \subseteq changes
       /\ \A r \in Reqs :
            req'[r] # req[r] /\ req[r].op \notin {"create", "update", "delete"}
            /\ req'[r].op \notin {"create", "update", "delete"}
                => versions' = versions /\ changes' = changes
       /\ last' # last /\ last'.op \notin {"create", "update", "delete"}
                => versions' = versions /\ changes' = changes]_vars

\* an update has added its rows to those of two earlier versions, the
\* event being shared
C20_Witness ==
    /\ last.op = "update" /\ last.at = "u_commit" /\ last.resp = "ok"
    /\ Cardinality(VersionsOf(last.eid)) = 3
    /\ Cardinality(ChangesOf(last.eid)) = 3
    /\ PermsOf(last.eid) # {}

\* C21: get_event_changelog returns every EventChange row of the event once
\* and no other row, in strictly descending version_number; for an event
\* made by create_event and then updated k times, one request at a time,
\* these are k+1 rows numbered k+1, k, ..., 1.
C21_ChangelogDescending ==
    [][\A r \in Reqs :
          req[r].pc = "l_select" /\ Free(r)' =>
              LET e == req[r].eid
                  q == last'.body.rows
              IN  /\ last'.resp = "ok"
                  /\ {q[i] : i \in 1..Len(q)} = ChangesOf(e)
                  /\ Len(q) = Cardinality(ChangesOf(e))
                  /\ \A i, j \in 1..Len(q) :
                        i < j => q[i].version_number > q[j].version_number
                  /\ Len(q) = events[e].current_version
                  /\ \A i \in 1..Len(q) :
                        q[i].version_number = Len(q) + 1 - i]_vars

\* the changelog of an event that was updated twice has been returned
C21_Witness ==
    /\ last.op = "changelog" /\ last.at = "l_select" /\ last.resp = "ok"
    /\ Len(last.body.rows) = 3
    /\ last.body.rows[1].change_type = "UPDATE"
    /\ last.body.rows[3].change_type = "CREATE"

\* the display-zone datetime whose wall clock reads n minutes
Display(n) == Dt(n, TRUE, IST)

\* C22: for a timestamp T sent without offset, convert_to_ist of
\* convert_to_utc of T is the display-zone time with T's wall clock; the
\* stored value is T less 5 h 30 min, the responses of create_event and
\* update_event show T, and get_event shows the stored value plus 5 h 30 min.
C22_NaiveRoundTrip ==
    [][\A r \in Reqs :
          /\ req'[r].sent # req[r].sent =>
               \A k \in DOMAIN req'[r].sent :
                   LET T == req'[r].sent[k]
                   IN  ~T.aware =>
                         convert_to_ist(convert_to_utc(T)) = Display(T.n)
          /\ req[r].pc \in {"c_commit", "u_commit"} /\ Free(r)'
             /\ last'.resp = "ok" =>
               \A k \in DOMAIN req[r].sent :
                   LET T == req[r].sent[k]
                   IN  ~T.aware =>
                         /\ events'[req[r].eid].f[k] = Dt(T.n - IST, FALSE, 0)
                         /\ last'.body.times[k] = Display(T.n)
          /\ req[r].pc = "g_return" /\ Free(r)' =>
               \A k \in TimeFields :
                   last'.body.times[k]
                     = Display(events[req[r].eid].f[k].n + IST)]_vars

\* get_event has read back an event whose start was sent as 00:00 without
\* offset and is stored as 18:30 of the day before
C22_Witness ==
    /\ last.op = "get" /\ last.at = "g_return" /\ last.resp = "ok"
    /\ last.eid \in DOMAIN events
    /\ events[last.eid].f["start_time"] = Dt(0 - IST, FALSE, 0)
    /\ last.body.times["start_time"] = Display(0)

\* C23: create_event and update_event store a sent timestamp T as a naive
\* UTC value: T less 5 h 30 min if T has no offset, T less its offset o if it
\* has one; a timestamp the request did not send is stored as it was.
C23_StoredAsUtc ==
    [][\A r \in Reqs :
          /\ Free(r) /\ ~Free(r)' /\ req'[r].op = "create" =>
               \A k \in TimeFields :
                   LET T == req'[r].sent[k]
                   IN  events'[req'[r].eid].f[k] =
                         Dt(T.n - (IF T.aware THEN T.off ELSE IST), FALSE, 0)
          /\ req[r].pc = "u_commit" /\ Free(r)' /\ last'.resp = "ok" =>
               \A k \in TimeFields :
                   IF k \in DOMAIN req[r].sent
                   THEN LET T == req[r].sent[k]
                        IN  events'[req[r].eid].f[k] =
                              Dt(T.n - (IF T.aware THEN T.off ELSE IST),
                                 FALSE, 0)
                   ELSE events'[req[r].eid].f[k] = events[req[r].eid].f[k]]_vars

\* an update has stored 09:00-05:00 as 14:00
C23_Witness ==
    /\ last.op = "update" /\ last.at = "u_commit" /\ last.resp = "ok"
    /\ "start_time" \in DOMAIN last.body.sent
    /\ last.body.sent["start_time"] = Dt(540, TRUE, -300)
    /\ last.eid \in DOMAIN events
    /\ events[last.eid].f["start_time"] = Dt(840, FALSE, 0)

\* a value that, if it is a timestamp, carries the display-zone offset
InDisplayZone(v) ==
    v.kind \in {"datetime", "isostr"} => v.aware /\ v.off = IST

\* C24: every start_time and end_time a response carries is in the display
\* zone: in the event returned by create_event, update_event and get_event,
\* in the data returned by get_event_version, in the changes returned by
\* get_event_changelog and in the values returned by get_event_diff.
C24_ResponsesInDisplayZone ==
    last.resp = "ok" =>
        /\ \A k \in DOMAIN last.body.times : InDisplayZone(last.body.times[k])
        /\ \A k \in DOMAIN last.body.data \cap TimeFields :
               InDisplayZone(last.body.data[k])
        /\ \A d \in last.body.diffs :
               d.field \in TimeFields =>
                   InDisplayZone(d.old_value) /\ InDisplayZone(d.new_value)
        /\ \A i \in 1..Len(last.body.rows) :
               LET c == last.body.rows[i]
               IN  \A k \in DOMAIN c.changes \cap TimeFields :
                      IF c.change_type = "CREATE"
                      THEN InDisplayZone(c.changes[k])
                      ELSE /\ InDisplayZone(c.changes[k].old)
                           /\ InDisplayZone(c.changes[k].new)

\* C25: requests run one at a time; every update_event request that succeeds
\* raises current_version by exactly 1 and writes exactly one EventVersion row
\* and one EventChange row with the new number, also when its body is empty
\* or sets fields to the values they already have, and in those two cases the
\* changes mapping of the EventChange row is empty.
C25_EveryUpdateIsOneVersion ==
    [][\A r \in Reqs :
          req[r].pc = "u_commit" /\ Free(r)' /\ last'.resp = "ok" =>
              LET e == req[r].eid
                  F == DOMAIN req[r].pendV[1].data
                  newV == versions' \ versions
                  newC == changes' \ changes
              IN  /\ events'[e].current_version = events[e].current_version + 1
                  /\ Cardinality(newV) = 1
                  /\ Cardinality(newC) = 1
                  /\ \A x \in newV \cup newC :
                        /\ x.event_id = e
                        /\ x.version_number = events'[e].current_version
                  /\ (\A k \in F : events'[e].f[k] = events[e].f[k]) =>
                        \A c \in newC : c.changes = EmptyDict]_vars

\* C26: in every committed state, whatever the interleaving of update_event
\* and delete_event requests, every EventVersion row and every EventChange
\* row references an event that exists and has a version_number that is at
\* most that event's current_version.
C26_HistoryWithinCurrentVersion ==
    \A x \in versions \cup changes :
        /\ x.event_id \in DOMAIN events
        /\ x.version_number <= events[x.event_id].current_version

\* the requests that only read: get_event, get_event_version,
\* get_event_changelog, get_event_diff (list_events is a single step)
ReadOps == {"get", "version", "changelog", "diff"}

\* C27: every step of a get_event, list_events, get_event_version,
\* get_event_changelog or get_event_diff request, the commit of the session
\* after the response included, leaves every Event, EventVersion, EventChange
\* and EventPermission row as it was, updated_at included.
C27_ReadsChangeNothing ==
    [][(\/ last' # last /\ last'.op = "list"
        \/ \E r \in Reqs :
              /\ req'[r] # req[r]
              /\ req[r].op \in ReadOps \/ req'[r].op \in ReadOps)
       => store' = store]_vars

\* get_event has answered 09:00+05:30 for an event stored as 03:30 that no
\* UPDATE has touched
C27_Witness ==
    /\ last.op = "get" /\ last.resp = "ok"
    /\ last.eid \in DOMAIN events
    /\ last.body.times["start_time"] = Display(540)
    /\ events[last.eid].f["start_time"] = Dt(210, FALSE, 0)
    /\ events[last.eid].updated_at = 0

\* the identity of a permission row
PermKey(p) == <<p.event_id, p.user_id, p.copy>>

\* C28: every step of an update_event request leaves the owner_id of every
\* event and every EventPermission row as they were; every step of a
\* share_event request leaves every Event, EventVersion and EventChange row
\* as it was; and no step of any request changes the role of a permission row
\* that exists before and after it.
C28_UpdateAndShareAreSeparate ==
    [][/\ \A r \in Reqs :
             req'[r] # req[r] /\ "update" \in {req[r].op, req'[r].op} =>
                 /\ perms' = perms
                 /\ DOMAIN events' = DOMAIN events
                 /\ \A e \in DOMAIN events :
                        events'[e].owner_id = events[e].owner_id
       /\ \A r \in Reqs :
             req'[r] # req[r] /\ "share" \in {req[r].op, req'[r].op} =>
                 /\ events' = events
                 /\ versions' = versions
                 /\ changes' = changes
       /\ \A p \in perms, q \in perms' :
             PermKey(p) = PermKey(q) => q.role = p.role]_vars

\* an update has succeeded on an event that has a permission row, and the
\* event has the owner who created it
C28_Witness ==
    /\ last.op = "update" /\ last.resp = "ok"
    /\ last.eid \in DOMAIN events
    /\ events[last.eid].owner_id \in Creators
    /\ events[last.eid].current_version >= 2
    /\ PermsOf(last.eid) # {}

\* C29: create_event and update_event refuse an empty title and an end_time
\* before the start_time, so every stored event has a title that is not
\* empty and a start_time that is not after its end_time.
C29_StoredEventsAreValid ==
    \A e \in DOMAIN events :
        /\ events[e].f["title"] # Str("")
        /\ events[e].f["start_time"].n <= events[e].f["end_time"].n

\* C30: list_events called by a user returns only events that user owns or
\* has an EventPermission row for.
C30_ListIsScopedToCaller ==
    last.op = "list" =>
        \A e \in last.body.events :
            e \in DOMAIN events =>
                \/ events[e].owner_id = last.user
                \/ \E p \in PermsOf(e) : p.user_id = last.user

\* a user who neither owns the event nor has a permission row for it has
\* listed and got nothing, while the event exists
C30_Witness ==
    /\ last.op = "list" /\ last.resp = "ok"
    /\ last.body.events = {}
    /\ \E e \in DOMAIN events :
          /\ events[e].owner_id # last.user
          /\ \A p \in PermsOf(e) : p.user_id # last.user

====
